---- MODULE Spec2Model ----
(***************************************************************************)
(* Model of google/datalab/contrib/pipeline/_pipeline.py: the Pipeline     *)
(* object and its `py` property, which turns a parsed pipeline             *)
(* configuration into the text of an Airflow program.                      *)
(*                                                                         *)
(* Python values are records [type, str, has_sql, sql, items, dt]: `type`  *)
(* is the name of type(v), `str` is str(v), `has_sql`/`sql` model the      *)
(* `.sql` attribute, `items` the elements of a list, `dt` the fields of a  *)
(* datetime.  A dict is a function whose DOMAIN is its key set; the tasks  *)
(* dict, whose insertion order is observable, is the sequence of its       *)
(* <<key, value>> items in insertion order.                                *)
(***************************************************************************)
EXTENDS Integers, Sequences, FiniteSets, TLC

VARIABLES
  spec_str,   \* self._spec_str
  name,       \* self._name
  env,        \* self._env
  given,      \* the configuration parse_config handed to the last call of py
  dag_spec,   \* that configuration as the last call of py left it
  returned,   \* the values py returned so far, oldest first
  emitted,    \* the statements of the last call: [insts, deps]
  parses      \* how many times parse_config has been invoked

vars == <<spec_str, name, env, given, dag_spec, returned, emitted, parses>>

\* Bounds of the model.
MaxTasks == 2
MaxUpStream == 2
MaxParams == 2
MaxCalls == 2

-----------------------------------------------------------------------------
\* Decimal digits and code points.

\* The decimal digits, for the fields of strftime and of str(datetime).
Digit == <<"0", "1", "2", "3", "4", "5", "6", "7", "8", "9">>

Pad2(n) == Digit[((n \div 10) % 10) + 1] \o Digit[(n % 10) + 1]

Pad4(n) == Pad2(n \div 100) \o Pad2(n % 100)

\* The decimal numeral of a natural number, without padding.
RECURSIVE Dec(_)
Dec(n) == IF n < 10 THEN Digit[n + 1] ELSE Dec(n \div 10) \o Digit[(n % 10) + 1]

\* The code points of the identifiers the model uses.
CodePoints(s) ==
  CASE s = "a" -> <<97>>
    [] s = "ab" -> <<97, 98>>
    [] s = "b" -> <<98>>
    [] s = "B" -> <<66>>
    [] s = "zz" -> <<122, 122>>
    [] s = "priority" -> <<112, 114, 105, 111, 114, 105, 116, 121>>
    [] s = "query" -> <<113, 117, 101, 114, 121>>
    [] s = "type" -> <<116, 121, 112, 101>>
    [] s = "up_stream" -> <<117, 112, 95, 115, 116, 114, 101, 97, 109>>
    [] s = "use_legacy_sql" -> <<117, 115, 101, 95, 108, 101, 103, 97, 99, 121, 95, 115, 113, 108>>
    [] s = "bql" -> <<98, 113, 108>>
    [] s = "a'b" -> <<97, 39, 98>>
    [] s = "a\"b" -> <<97, 34, 98>>
    [] s = "it's \"x\"" -> <<105, 116, 39, 115, 32, 34, 120, 34>>

-----------------------------------------------------------------------------
\* Python values.

Value(t, s) ==
  [type |-> t, str |-> s, has_sql |-> FALSE, sql |-> "", items |-> <<>>, dt |-> <<>>]

NoneV == Value("NoneType", "None")
TrueV == Value("bool", "True")
FalseV == Value("bool", "False")
IntV == Value("int", "5")
FloatV == Value("float", "1.5")
StrV(s) == Value("str", s)
QueryV(sql) == [Value("Query", "BigQuery Query - " \o sql) EXCEPT !.has_sql = TRUE, !.sql = sql]

\* The printable ASCII characters of code points 32 to 95 and 97 to 126.
PrintableLow ==
  <<" ", "!", "\"", "#", "$", "%", "&", "'", "(", ")", "*", "+", ",", "-", ".", "/",
    "0", "1", "2", "3", "4", "5", "6", "7", "8", "9", ":", ";", "<", "=", ">", "?",
    "@", "A", "B", "C", "D", "E", "F", "G", "H", "I", "J", "K", "L", "M", "N", "O",
    "P", "Q", "R", "S", "T", "U", "V", "W", "X", "Y", "Z", "[", "\\", "]", "^", "_">>

PrintableHigh ==
  <<"a", "b", "c", "d", "e", "f", "g", "h", "i", "j", "k", "l", "m", "n", "o",
    "p", "q", "r", "s", "t", "u", "v", "w", "x", "y", "z", "{", "|", "}", "~">>

\* chr(c) for those code points.
Chr(c) == IF c < 96 THEN PrintableLow[c - 31] ELSE PrintableHigh[c - 96]

\* The characters of repr(s) between its quotes: the backslash and the
\* enclosing quote are escaped.
RECURSIVE ReprBody(_, _)
ReprBody(cps, quote) ==
  IF cps = <<>> THEN ""
  ELSE (IF Head(cps) = 92 THEN "\\\\"
        ELSE IF Head(cps) = quote THEN "\\" \o Chr(quote)
        ELSE Chr(Head(cps)))
       \o ReprBody(Tail(cps), quote)

\* repr() of a string of printable ASCII: single quotes, unless the string
\* holds a single quote and no double quote.
repr(s) ==
  LET cps == CodePoints(s)
      has(c) == \E i \in 1..Len(cps) : cps[i] = c
      quote == IF has(39) /\ ~has(34) THEN 34 ELSE 39
  IN Chr(quote) \o ReprBody(cps, quote) \o Chr(quote)

\* str() of a list of strings, between the brackets: the repr of each item.
RECURSIVE ListItems(_)
ListItems(xs) ==
  IF xs = <<>> THEN ""
  ELSE repr(Head(xs)) \o (IF Tail(xs) = <<>> THEN "" ELSE ", ") \o ListItems(Tail(xs))

ListV(xs) == [Value("list", "[" \o ListItems(xs) \o "]") EXCEPT !.items = xs]

\* A datetime without microseconds or tzinfo; str() is isoformat(' ').
DatetimeV(y, mo, d, h, mi, s) ==
  [Value("datetime", Pad4(y) \o "-" \o Pad2(mo) \o "-" \o Pad2(d) \o " "
                       \o Pad2(h) \o ":" \o Pad2(mi) \o ":" \o Pad2(s))
     EXCEPT !.dt = <<y, mo, d, h, mi, s>>]

EmptyDict == <<>>

Has(d, k) == k \in DOMAIN d

\* Whether x is a dict rather than a value record.
IsDict(x) == "has_sql" \notin DOMAIN x

\* dict.get(k, default)
Get(d, k, default) == IF Has(d, k) THEN d[k] ELSE default

RECURSIVE Join(_)
Join(ss) == IF ss = <<>> THEN "" ELSE Head(ss) \o Join(Tail(ss))

\* str.format on a template cut into literal pieces and the placeholders
\* "{0}", "{1}", "{2}".
RECURSIVE Format(_, _)
Format(template, args) ==
  IF template = <<>> THEN ""
  ELSE LET p == Head(template)
           piece == IF p = "{0}" THEN args[1]
                    ELSE IF p = "{1}" THEN args[2]
                    ELSE IF p = "{2}" THEN args[3]
                    ELSE p
       IN piece \o Format(Tail(template), args)

-----------------------------------------------------------------------------
\* Ordering of Python strings: lexicographic by code point.

RECURSIVE SeqLess(_, _)
SeqLess(s, t) ==
  IF t = <<>> THEN FALSE
  ELSE IF s = <<>> THEN TRUE
  ELSE IF Head(s) < Head(t) THEN TRUE
  ELSE IF Head(s) > Head(t) THEN FALSE
  ELSE SeqLess(Tail(s), Tail(t))

StrLess(a, b) == SeqLess(CodePoints(a), CodePoints(b))

\* sorted() of a set of distinct strings.
RECURSIVE sorted(_)
sorted(S) ==
  IF S = {} THEN <<>>
  ELSE LET m == CHOOSE x \in S : \A y \in S \ {x} : StrLess(x, y)
       IN <<m>> \o sorted(S \ {m})

Keys(items) == {items[i][1] : i \in 1..Len(items)}

Lookup(items, k) == items[CHOOSE i \in 1..Len(items) : items[i][1] = k][2]

sorted_items_unsorted(items) == items

\* sorted(dag_spec['tasks'].items()): the keys are distinct, so the items are
\* ordered by key alone.
sorted_items(items) ==
  LET ks == sorted(Keys(items))
  IN [i \in 1..Len(ks) |-> <<ks[i], Lookup(items, ks[i])>>]

by_emitted_name(task_details) ==
  LET emittedName(k) == IF k = "query" THEN "bql" ELSE k
      S == DOMAIN task_details
      RECURSIVE pick(_)
      pick(R) ==
        IF R = {} THEN <<>>
        ELSE LET m == CHOOSE x \in R :
                        \A y \in R \ {x} : StrLess(emittedName(x), emittedName(y))
             IN <<m>> \o pick(R \ {m})
  IN pick(S)

\* The keys of sorted(task_details.items()), in order.
sorted_params(task_details) == sorted(DOMAIN task_details)

-----------------------------------------------------------------------------
\* What a call yields: a value (status "ok") or a raised exception.

Ok(text) == [status |-> "ok", text |-> text]

Raise(exc) == [status |-> exc, text |-> ""]

_imports ==
  "\nfrom airflow import DAG\n"
  \o "from airflow.operators.bash_operator import BashOperator\n"
  \o "from airflow.contrib.operators.bigquery_operator import BigQueryOperator\n"
  \o "from airflow.contrib.operators.bigquery_table_delete_operator import BigQueryTableDeleteOperator\n"
  \o "from airflow.contrib.operators.bigquery_to_bigquery import BigQueryToBigQueryOperator\n"
  \o "from airflow.contrib.operators.bigquery_to_gcs import BigQueryToCloudStorageOperator\n"
  \o "from datetime import timedelta\n"
  \o "from pytz import timezone\n"

\* datetime_obj.strftime('%Y-%m-%dT%H:%M:%S').  %Y is the year as the C library
\* of the Linux runtime prints it, without padding (other platforms pad it to
\* four digits; the two agree from year 1000 on).
strftime(datetime_obj) ==
  LET d == datetime_obj.dt
  IN Dec(d[1]) \o "-" \o Pad2(d[2]) \o "-" \o Pad2(d[3]) \o "T"
     \o Pad2(d[4]) \o ":" \o Pad2(d[5]) \o ":" \o Pad2(d[6])

\* A value that is no datetime (None, a string) has no strftime attribute.
_get_datetime_expr_str(datetime_obj) ==
  IF datetime_obj.type # "datetime" THEN Raise("AttributeError")
  ELSE Ok(Format(<<"datetime.datetime.strptime('", "{0}", "', '", "{1}",
                   "').replace(tzinfo=timezone('UTC'))">>,
                 <<strftime(datetime_obj), "%Y-%m-%dT%H:%M:%S">>))

_get_default_args(email, start_date, end_date) ==
  LET start_date_str == _get_datetime_expr_str(start_date)
      end_date_str == _get_datetime_expr_str(end_date)
  IN IF start_date_str.status # "ok" THEN start_date_str
     ELSE IF end_date_str.status # "ok" THEN end_date_str
     ELSE Ok(Format(<<"\ndefault_args = {\n    'owner': 'Datalab',\n    'depends_on_past': False,\n    'email': ['",
                      "{0}", "'],\n    'start_date': ", "{1}", ",\n    'end_date': ", "{2}",
                      ",\n    'email_on_failure': True,\n    'email_on_retry': False,\n    'retries': 1,\n    'retry_delay': timedelta(minutes=1),\n}\n\n">>,
                    <<email.str, start_date_str.text, end_date_str.text>>))

_get_dag_definition(self_name, schedule_interval) ==
  Format(<<"dag = DAG(dag_id='", "{0}", "', schedule_interval='", "{1}",
           "', default_args=default_args)\n\n">>,
         <<self_name, schedule_interval.str>>)

quote_everything(param_value) == <<", ", "{0}", "='", "{1}", "'">>

\* The format string of one keyword argument.
_get_param_format_string(param_value) ==
  IF param_value.type \in {"int", "bool", "float", "NoneType"}
  THEN <<", ", "{0}", "=", "{1}">>
  ELSE <<", ", "{0}", "='", "{1}", "'">>

\* What `for dependency in dependencies` iterates over: the items of a list,
\* the characters of a string; any other value here (None, a number, a
\* datetime, a Query) is not iterable and raises TypeError.
iter(dependencies) ==
  IF dependencies.type = "list" THEN [status |-> "ok", items |-> dependencies.items]
  ELSE IF dependencies.type = "str"
  THEN [status |-> "ok",
        items |-> [i \in 1..Len(CodePoints(dependencies.str)) |->
                     Chr(CodePoints(dependencies.str)[i])]]
  ELSE [status |-> "TypeError", items |-> <<>>]

first_dependency_only(task_id, dependencies) ==
  IF iter(dependencies).status # "ok"
  THEN [status |-> iter(dependencies).status, text |-> "", stmts |-> <<>>]
  ELSE IF iter(dependencies).items = <<>> THEN [status |-> "ok", text |-> "", stmts |-> <<>>]
  ELSE LET t == Format(<<"{0}", ".set_upstream(", "{1}", ")">>,
                       <<task_id, Head(iter(dependencies).items)>>) \o "\n"
       IN [status |-> "ok", text |-> t,
           stmts |-> <<[task_id |-> task_id, dependency |-> Head(iter(dependencies).items),
                        text |-> t]>>]

\* Returns the text the code returns and, beside it, the statements it is made of.
RECURSIVE dependency_loop(_, _, _)
dependency_loop(task_id, dependencies, acc) ==
  IF dependencies = <<>> THEN acc
  ELSE LET dependency == Head(dependencies)
           t == Format(<<"{0}", ".set_upstream(", "{1}", ")">>, <<task_id, dependency>>) \o "\n"
       IN dependency_loop(task_id, Tail(dependencies),
            [status |-> "ok",
             text |-> acc.text \o t,
             stmts |-> Append(acc.stmts,
                         [task_id |-> task_id, dependency |-> dependency, text |-> t])])

\* The loop over the iterated value, or the TypeError of iterating it.
dependency_statements(task_id, iterated) ==
  IF iterated.status # "ok" THEN [status |-> iterated.status, text |-> "", stmts |-> <<>>]
  ELSE dependency_loop(task_id, iterated.items, [status |-> "ok", text |-> "", stmts |-> <<>>])

_get_dependency_definition(task_id, dependencies) ==
  dependency_statements(task_id, iter(dependencies))

task_type_to_operator_prefix_mapping ==
  [k \in {"bq", "bq.execute", "bq.query", "bq-table-delete", "bq.extract", "bash"} |->
     CASE k = "bq" -> "BigQuery"
       [] k = "bq.execute" -> "BigQuery"
       [] k = "bq.query" -> "BigQuery"
       [] k = "bq-table-delete" -> "BigQueryTableDelete"
       [] k = "bq.extract" -> "BigQueryToCloudStorage"
       [] k = "bash" -> "Bash"]

\* Whether hash(v) succeeds: a list is unhashable.
hashable(v) == v.type # "list"

\* dict.get hashes its argument, so an unhashable type raises TypeError; only
\* a string equals a key of the mapping; any other value is formatted by str().
_get_operator_classname(task_detail_type) ==
  IF ~hashable(task_detail_type) THEN Raise("TypeError")
  ELSE IF task_detail_type.type = "str"
          /\ Has(task_type_to_operator_prefix_mapping, task_detail_type.str)
  THEN Ok(Format(<<"{0}", "Operator">>,
                 <<task_type_to_operator_prefix_mapping[task_detail_type.str]>>))
  ELSE Ok(Format(<<"{0}", "Operator">>, <<task_detail_type.str>>))

no_substitution(param_name, param_value, operator_class_name) ==
  [status |-> "ok", name |-> param_name, value |-> param_value]

\* param_value.sql raises AttributeError on a value without that attribute.
_get_operator_param_name_and_value(param_name, param_value, operator_class_name) ==
  IF operator_class_name = "BigQueryOperator" /\ param_name = "query"
  THEN IF param_value.has_sql
       THEN [status |-> "ok", name |-> "bql", value |-> StrV(param_value.sql)]
       ELSE [status |-> "AttributeError", name |-> "bql", value |-> param_value]
  ELSE [status |-> "ok", name |-> param_name, value |-> param_value]

Put(d, k, v) == [x \in DOMAIN d \cup {k} |-> IF x = k THEN v ELSE d[x]]

no_default(task_details, operator_class_name) == task_details

force_default(task_details, operator_class_name) ==
  IF operator_class_name = "BigQueryOperator"
  THEN Put(task_details, "use_legacy_sql", FalseV)
  ELSE task_details

\* Returns task_details as the in-place update leaves it.
_add_default_override_params(task_details, operator_class_name) ==
  IF operator_class_name = "BigQueryOperator" /\ ~Has(task_details, "use_legacy_sql")
  THEN Put(task_details, "use_legacy_sql", FalseV)
  ELSE task_details

\* param_name in ['type', 'up_stream']
reserved(param_name) == param_name \in {"type", "up_stream"}

\* param_string + param_format_string.format(operator_param_name,
\* operator_param_value); the exception of the substitution ends the loop.
add_param(acc, param_name, param_format_string, nv) ==
  IF nv.status # "ok" THEN [acc EXCEPT !.status = nv.status]
  ELSE [acc EXCEPT
          !.param_string = @ \o Format(param_format_string, <<nv.name, nv.value.str>>),
          !.params = Append(@, [param_name |-> param_name, name |-> nv.name,
                                value |-> nv.value,
                                text |-> Format(param_format_string,
                                                <<nv.name, nv.value.str>>)])]

\* The loop over sorted(task_details.items()) of _get_operator_definition.
RECURSIVE param_loop(_, _, _, _)
param_loop(names, task_details, operator_classname, acc) ==
  IF names = <<>> \/ acc.status # "ok" THEN acc
  ELSE IF reserved(Head(names))
  THEN param_loop(Tail(names), task_details, operator_classname, acc)
  ELSE param_loop(Tail(names), task_details, operator_classname,
         add_param(acc, Head(names),
                   _get_param_format_string(task_details[Head(names)]),
                   _get_operator_param_name_and_value(Head(names), task_details[Head(names)],
                                                      operator_classname)))

\* The statement (text, and beside it its class name and arguments) or the
\* exception raised, and task_details as the call leaves it.
operator_definition(task_id, operator_classname, task_details, loop) ==
  [status |-> loop.status,
   text |-> IF loop.status = "ok"
            THEN Format(<<"{0}", " = ", "{1}", "(", "{2}", ", dag=dag)\n">>,
                        <<task_id, operator_classname, loop.param_string>>)
            ELSE "",
   task_id |-> task_id, classname |-> operator_classname,
   params |-> loop.params,
   task_details |-> task_details]

param_string_start(task_id) ==
  [status |-> "ok",
   param_string |-> Format(<<"task_id='", "{0}", "_id'">>, <<task_id>>),
   params |-> <<>>]

\* An exception raised before the operator class name is known: task_details
\* is as it was given.
no_classname(exc, task_id, task_details) ==
  [status |-> exc, text |-> "", task_id |-> task_id, classname |-> "",
   params |-> <<>>, task_details |-> task_details]

\* The loop and the returned statement, on task_details as the defaults left it.
emit_operator(task_id, task_details, operator_classname) ==
  operator_definition(task_id, operator_classname, task_details,
    param_loop(sorted_params(task_details), task_details, operator_classname,
               param_string_start(task_id)))

default_after_emission(task_id, task_details, operator_classname) ==
  [emit_operator(task_id, task_details, operator_classname) EXCEPT
     !.task_details = _add_default_override_params(task_details, operator_classname)]

\* _get_operator_definition once the operator class name is known: the
\* defaults are added, then the arguments are emitted.
define_operator(task_id, task_details, operator_classname) ==
  emit_operator(task_id, _add_default_override_params(task_details, operator_classname),
                operator_classname)

\* _get_operator_definition from the call of _get_operator_classname on.
with_classname(task_id, task_details, operator_classname) ==
  IF operator_classname.status # "ok"
  THEN no_classname(operator_classname.status, task_id, task_details)
  ELSE define_operator(task_id, task_details, operator_classname.text)

_get_operator_definition(task_id, task_details) ==
  IF ~Has(task_details, "type") THEN no_classname("KeyError", task_id, task_details)
  ELSE with_classname(task_id, task_details,
                      _get_operator_classname(task_details["type"]))

-----------------------------------------------------------------------------
\* The py property.

\* The tasks dict with the value stored under task_id replaced (the in-place
\* update of that task's parameter mapping, seen through the dict).
Store(tasks, task_id, task_details) ==
  [i \in 1..Len(tasks) |->
     IF tasks[i][1] = task_id THEN <<task_id, task_details>> ELSE tasks[i]]

\* task_definitions + task_def and up_steam_statements + dependency_def; the
\* exception of dependency_def is raised after task_def has been appended.
add_task(acc, task_def, dependency_def) ==
  [acc EXCEPT !.status = dependency_def.status,
              !.task_definitions = @ \o task_def.text,
              !.up_steam_statements = @ \o dependency_def.text,
              !.insts = Append(@, [task_id |-> task_def.task_id,
                                   classname |-> task_def.classname,
                                   params |-> task_def.params,
                                   text |-> task_def.text]),
              !.deps = @ \o dependency_def.stmts]

\* One iteration of the loop of py; the exception of task_def ends the loop,
\* and so does that of iterating task_details.get('up_stream', []).
task_step(acc, task_def) ==
  IF task_def.status # "ok"
  THEN [acc EXCEPT !.status = task_def.status,
                   !.tasks = Store(@, task_def.task_id, task_def.task_details)]
  ELSE add_task([acc EXCEPT !.tasks = Store(@, task_def.task_id, task_def.task_details)],
                task_def,
                _get_dependency_definition(task_def.task_id,
                  Get(task_def.task_details, "up_stream", ListV(<<>>))))

\* The loop of py over the sorted items; acc carries task_definitions and
\* up_steam_statements, the statements they are made of, and the tasks dict.
RECURSIVE task_loop(_, _)
task_loop(items, acc) ==
  IF items = <<>> \/ acc.status # "ok" THEN acc
  ELSE task_loop(Tail(items),
                 task_step(acc, _get_operator_definition(Head(items)[1], Head(items)[2])))

is_none(self_spec_str) == self_spec_str.type = "NoneType"

\* not self._spec_str: None and the empty string are false.
falsy(self_spec_str) == self_spec_str.type = "NoneType" \/ self_spec_str.empty

\* utils.commands.parse_config(self._spec_str, self._env): the mapping the
\* text denotes.  `shared` says whether the mapping it hands back is one an
\* earlier call of py has already worked on, or a fresh one.
parse_config(self_spec_str, self_env, shared) ==
  IF shared.reuse THEN shared.obj ELSE self_spec_str.yaml

\* dag_spec.get('schedule').get('start_date') and ...get('end_date'): an
\* absent schedule is None, which has no attribute get, no more than a schedule
\* that is None or a string; an absent date is None.
get_schedule_dates(dag_spec_) ==
  IF ~Has(dag_spec_, "schedule") \/ ~IsDict(dag_spec_["schedule"])
  THEN [status |-> "AttributeError", start |-> NoneV, end |-> NoneV]
  ELSE [status |-> "ok",
        start |-> Get(dag_spec_["schedule"], "start_date", NoneV),
        end |-> Get(dag_spec_["schedule"], "end_date", NoneV)]

Result(status, text, parsed, given_, after, insts, deps) ==
  [status |-> status, text |-> text, parsed |-> parsed, given |-> given_,
   dag_spec |-> after, insts |-> insts, deps |-> deps]

Raised(exc, parsed, after) == Result(exc, "", TRUE, parsed, after, <<>>, <<>>)

\* The return statement of py, or the exception that ended the loop.
py_return(parsed, default_args, dag_definition, loop) ==
  IF loop.status # "ok"
  THEN Raised(loop.status, parsed, [parsed EXCEPT !["tasks"] = loop.tasks])
  ELSE Result("ok",
              _imports \o default_args \o dag_definition
                \o loop.task_definitions \o loop.up_steam_statements,
              TRUE, parsed, [parsed EXCEPT !["tasks"] = loop.tasks],
              loop.insts, loop.deps)

\* py from the dag definition on.
py_tasks(parsed, self_name, default_args) ==
  IF default_args.status # "ok" THEN Raised(default_args.status, parsed, parsed)
  ELSE IF ~Has(parsed["schedule"], "schedule_interval") THEN Raised("KeyError", parsed, parsed)
  ELSE IF ~Has(parsed, "tasks") THEN Raised("KeyError", parsed, parsed)
  ELSE py_return(parsed, default_args.text,
                 _get_dag_definition(self_name, parsed["schedule"]["schedule_interval"]),
                 task_loop(sorted_items(parsed["tasks"]),
                           [status |-> "ok", tasks |-> parsed["tasks"],
                            task_definitions |-> "", up_steam_statements |-> "",
                            insts |-> <<>>, deps |-> <<>>]))

\* py on the parsed configuration.
py_parsed(parsed, self_name, dates) ==
  IF dates.status # "ok" THEN Raised(dates.status, parsed, parsed)
  ELSE IF ~Has(parsed, "email") THEN Raised("KeyError", parsed, parsed)
  ELSE py_tasks(parsed, self_name,
                _get_default_args(parsed["email"], dates.start, dates.end))

generate(parsed, self_name) == py_parsed(parsed, self_name, get_schedule_dates(parsed))

\* The value py returns (status "ok" with the program text, status "None"),
\* or the exception it raises, with the configuration as the call leaves it.
py(self_spec_str, self_name, self_env, shared) ==
  IF falsy(self_spec_str)
  THEN Result("None", "", FALSE, EmptyDict, EmptyDict, <<>>, <<>>)
  ELSE generate(parse_config(self_spec_str, self_env, shared), self_name)

-----------------------------------------------------------------------------
\* The inputs: names, environments and configuration texts.

Merge(f, g) == [x \in DOMAIN f \cup DOMAIN g |-> IF x \in DOMAIN f THEN f[x] ELSE g[x]]

Entry(k, v) == [x \in {k} |-> v]

SeqsUpTo(S, n) == UNION {[1..k -> S] : k \in 0..n}

DistinctKeys(items) == \A i, j \in 1..Len(items) : i # j => items[i][1] # items[j][1]

Names == {"dag1", "dag2"}

TaskIds == {"a", "ab", "B"}

DepIds == {"a", "b", "zz"}

TaskTypes ==
  {"bq", "bq.execute", "bq.query", "bq-table-delete", "bq.extract", "bash", "BigQuery", "foo"}

Q1 == QueryV("SELECT 1")

GoodSchedule ==
  [start_date |-> DatetimeV(2017, 1, 1, 0, 0, 0),
   end_date |-> DatetimeV(2017, 1, 2, 0, 0, 0),
   schedule_interval |-> StrV("@daily")]

Schedules ==
  {GoodSchedule,
   [end_date |-> GoodSchedule.end_date, schedule_interval |-> StrV("@daily")],
   [start_date |-> GoodSchedule.start_date, schedule_interval |-> StrV("@daily")],
   [GoodSchedule EXCEPT !.start_date = StrV("2017-01-01")],
   [start_date |-> GoodSchedule.start_date, end_date |-> GoodSchedule.end_date]}

WellFormed(tasks) ==
  [schedule |-> GoodSchedule, email |-> StrV("foo@bar.com"), tasks |-> tasks]

\* Configurations that vary the tasks, their insertion order and their up_stream lists.
GraphDetails ==
  {Merge(Entry("type", StrV(t)), up) :
     t \in {"bash", "bq.query"},
     up \in {EmptyDict, Entry("up_stream", ListV(<<"zz", "a">>)),
             Entry("up_stream", ListV(<<"ab">>))}}

GraphConfigs ==
  {WellFormed(items) :
     items \in {s \in SeqsUpTo(TaskIds \X GraphDetails, MaxTasks) : DistinctKeys(s)}}

\* Configurations that vary one task's up_stream list.
UpStreamConfigs ==
  {WellFormed(<< <<"a", [type |-> StrV("bash"), up_stream |-> ListV(deps)]>> >>) :
     deps \in SeqsUpTo(DepIds, MaxUpStream)}

\* Configurations that vary one task's type and parameters.
ParamValues(param_name) ==
  CASE param_name = "query" -> {Q1, StrV("SELECT 2")}
    [] param_name = "use_legacy_sql" -> {TrueV, FalseV, StrV("no")}
    [] param_name = "priority" ->
         {IntV, FloatV, NoneV, StrV("hi"), GoodSchedule.start_date, ListV(<<"a'b", "zz">>)}

ParamNames == {"query", "use_legacy_sql", "priority"}

AllParamValues == UNION {ParamValues(n) : n \in ParamNames}

ParamDicts ==
  UNION {{f \in [N -> AllParamValues] : \A n \in N : f[n] \in ParamValues(n)} :
           N \in {M \in SUBSET ParamNames : Cardinality(M) <= MaxParams}}

ParamConfigs ==
  {WellFormed(<< <<"a", Merge(Merge(ty, up), params)>> >>) :
     ty \in {EmptyDict} \cup {Entry("type", StrV(t)) : t \in TaskTypes},
     up \in {EmptyDict, Entry("up_stream", ListV(<<"zz">>))},
     params \in ParamDicts}

\* Configurations that lack top-level keys, schedule keys or a task's type.
PartialTasks ==
  {<< >>,
   << <<"a", [type |-> StrV("bash")]>> >>,
   << <<"a", EmptyDict>> >>,
   << <<"ab", [type |-> StrV("bq.query")]>>, <<"a", [up_stream |-> ListV(<<"ab">>)]>> >>,
   << <<"ab", [up_stream |-> ListV(<<"a">>)]>>, <<"a", [type |-> StrV("bq.query")]>> >>,
   << <<"a", [type |-> StrV("bq.query"), query |-> StrV("SELECT 2")]>> >>}

PartialConfigs ==
  {Merge(Merge(s, e), t) :
     s \in {EmptyDict} \cup {Entry("schedule", x) : x \in Schedules \cup {NoneV, StrV("@daily")}},
     e \in {EmptyDict, Entry("email", StrV("foo@bar.com"))},
     t \in {EmptyDict} \cup {Entry("tasks", x) : x \in PartialTasks}}

\* Configurations whose type is no string or whose up_stream is no list,
\* in the first task of two; the second may lack its type.
OddTypes == {ListV(<<"b">>), NoneV, IntV}

OddUpStreams == {StrV("ab"), NoneV, IntV, Q1}

OddDetails ==
  {Merge(Entry("type", ty), up) :
     ty \in {StrV("bash"), StrV("bq.query")} \cup OddTypes,
     up \in {EmptyDict} \cup {Entry("up_stream", u) : u \in OddUpStreams \cup {ListV(<<"zz">>)}}}

OddConfigs ==
  {WellFormed(<< <<"ab", later>>, <<"a", first>> >>) :
     first \in OddDetails,
     later \in {[type |-> StrV("bash")], [up_stream |-> ListV(<<"a">>)],
                [type |-> StrV("bq"), up_stream |-> StrV("ab")]}}

Configs ==
  GraphConfigs \cup UpStreamConfigs \cup ParamConfigs \cup PartialConfigs \cup OddConfigs

NoneStr == [type |-> "NoneType", empty |-> FALSE, yaml |-> EmptyDict]

EmptyStr == [type |-> "str", empty |-> TRUE, yaml |-> EmptyDict]

Text(config) == [type |-> "str", empty |-> FALSE, yaml |-> config]

SpecStrs == {NoneStr, EmptyStr} \cup {Text(c) : c \in Configs}

EnvArgs ==
  {[type |-> "NoneType", map |-> EmptyDict],
   [type |-> "dict", map |-> EmptyDict],
   [type |-> "dict", map |-> Entry("q1", Q1)]}

\* Whether the configuration refers to an object of the environment.
UsesEnv(config) ==
  /\ Has(config, "tasks")
  /\ \E i \in 1..Len(config["tasks"]) :
       \E k \in DOMAIN config["tasks"][i][2] : config["tasks"][i][2][k].type = "Query"

-----------------------------------------------------------------------------
\* The state machine.

\* Pipeline.__init__
Construct(spec_str_, name_, env_) ==
  /\ spec_str = spec_str_
  /\ name = name_
  /\ env = IF env_.type = "NoneType" \/ env_.map = EmptyDict THEN EmptyDict ELSE env_.map
  /\ given = EmptyDict
  /\ dag_spec = EmptyDict
  /\ returned = <<>>
  /\ emitted = [insts |-> <<>>, deps |-> <<>>]
  /\ parses = 0

Init ==
  \E s \in SpecStrs, n \in Names, e \in EnvArgs :
    /\ UsesEnv(s.yaml) => Has(e.map, "q1")
    /\ Construct(s, n, e)

\* One read of the py property.
Py ==
  /\ Len(returned) < MaxCalls
  /\ \E reuse \in BOOLEAN :
       /\ reuse => parses > 0
       /\ \E r \in {py(spec_str, name, env, [reuse |-> reuse, obj |-> dag_spec])} :
            /\ returned' = Append(returned, [status |-> r.status, text |-> r.text])
            /\ emitted' = [insts |-> r.insts, deps |-> r.deps]
            /\ IF r.parsed
               THEN /\ given' = r.given
                    /\ dag_spec' = r.dag_spec
                    /\ parses' = parses + 1
               ELSE UNCHANGED <<given, dag_spec, parses>>
  /\ UNCHANGED <<spec_str, name, env>>

Next == Py

Spec == Init /\ [][Next]_vars

-----------------------------------------------------------------------------
\* Vocabulary of the properties.

Called == returned # <<>>

Last == returned[Len(returned)]

\* The last call parsed a configuration and returned a program text.
Succeeded == Called /\ Last.status = "ok"

\* The last call parsed a configuration (the spec text was not empty).
Parsed == Called /\ parses > 0

Texts(stmts) == [i \in 1..Len(stmts) |-> stmts[i].text]

\* The task types whose operator class is BigQueryOperator: the three table
\* entries with prefix BigQuery, and the token BigQuery itself, which passes
\* through the table unchanged.
QueryTypes == {"bq", "bq.execute", "bq.query", "BigQuery"}

IsQueryTask(task_details) ==
  Has(task_details, "type") /\ task_details["type"].str \in QueryTypes

UpStreamOf(task_details) == Get(task_details, "up_stream", ListV(<<>>)).items

\* Every up_stream of the configuration is a list.
UpStreamLists(config) ==
  \A i \in 1..Len(config["tasks"]) :
    Get(config["tasks"][i][2], "up_stream", ListV(<<>>)).type = "list"

RECURSIVE UpStreamTotal(_, _)
UpStreamTotal(tasks, I) ==
  IF I = {} THEN 0
  ELSE LET i == CHOOSE x \in I : TRUE
       IN Len(UpStreamOf(tasks[i][2])) + UpStreamTotal(tasks, I \ {i})

\* The preamble, the default-arguments block and the graph declaration of the
\* configuration the last call was given.
Header ==
  _imports
    \o _get_default_args(given["email"], given["schedule"]["start_date"],
                         given["schedule"]["end_date"]).text
    \o _get_dag_definition(name, given["schedule"]["schedule_interval"])

\* The returned text is the header, then the instantiation statements, then the
\* set_upstream statements, and nothing else.
TextLayout ==
  Last.text = Header \o Join(Texts(emitted.insts)) \o Join(Texts(emitted.deps))

Unquoted(arg_name, value_str) == ", " \o arg_name \o "=" \o value_str

Quoted(arg_name, value_str) == ", " \o arg_name \o "='" \o value_str \o "'"

\* The arguments named n of an instantiation statement.
ArgsNamed(inst, n) == {k \in 1..Len(inst.params) : inst.params[k].name = n}

-----------------------------------------------------------------------------
\* C1: when py returns a program for a configuration whose task identifiers
\* are distinct, the program holds exactly one instantiation statement per
\* task, and the statements are in strictly increasing lexicographic (code
\* point) order of task identifier, whatever the order of the tasks mapping.
C1_OneInstantiationPerTaskInOrder ==
  Succeeded =>
    /\ TextLayout
    /\ Len(emitted.insts) = Len(given["tasks"])
    /\ \A i \in 1..Len(given["tasks"]) :
         Cardinality({j \in 1..Len(emitted.insts) :
                        emitted.insts[j].task_id = given["tasks"][i][1]}) = 1
    /\ \A j \in 1..(Len(emitted.insts) - 1) :
         StrLess(emitted.insts[j].task_id, emitted.insts[j + 1].task_id)

\* A program was returned for two tasks given in descending order.
C1_Witness ==
  /\ Succeeded
  /\ Len(given["tasks"]) = MaxTasks
  /\ StrLess(given["tasks"][2][1], given["tasks"][1][1])

\* C2: for a configuration whose up_stream values are lists, the set_upstream
\* statements are exactly, for each task in lexicographic order and each entry
\* of its up_stream list in list order, the statement
\* <task_id>.set_upstream(<entry>); they follow every instantiation statement;
\* entries naming no declared task and cycles are emitted like any other, and
\* a task without up_stream emits none.
C2_UpstreamStatements ==
  (Succeeded /\ UpStreamLists(given)) =>
    LET tasks == given["tasks"]
        Before(i) == UpStreamTotal(tasks, {k \in 1..Len(tasks) :
                                             StrLess(tasks[k][1], tasks[i][1])})
    IN /\ TextLayout
       /\ Len(emitted.deps) = UpStreamTotal(tasks, 1..Len(tasks))
       /\ \A i \in 1..Len(tasks) :
            \A j \in 1..Len(UpStreamOf(tasks[i][2])) :
              emitted.deps[Before(i) + j] =
                [task_id |-> tasks[i][1],
                 dependency |-> UpStreamOf(tasks[i][2])[j],
                 text |-> tasks[i][1] \o ".set_upstream("
                            \o UpStreamOf(tasks[i][2])[j] \o ")\n"]

\* A program was returned for a task listing two upstream entries, the first
\* of which names no declared task, beside a task that lists none.
C2_Witness ==
  /\ Succeeded
  /\ UpStreamLists(given)
  /\ \E i, k \in 1..Len(given["tasks"]) :
       /\ Len(UpStreamOf(given["tasks"][i][2])) = 2
       /\ UpStreamOf(given["tasks"][i][2])[1] \notin Keys(given["tasks"])
       /\ ~Has(given["tasks"][k][2], "up_stream")

\* A required key is absent: schedule, email or tasks, or the type of a task.
MissingKey(config) ==
  \/ ~Has(config, "schedule")
  \/ ~Has(config, "email")
  \/ ~Has(config, "tasks")
  \/ \E i \in 1..Len(config["tasks"]) : ~Has(config["tasks"][i][2], "type")

\* Nothing else is wrong with the configuration: the schedule, when present,
\* holds two datetimes and an interval, every query of a query-type task has
\* a .sql attribute, every type is hashable and every up_stream is iterable.
OtherwiseWellFormed(config) ==
  /\ Has(config, "schedule") =>
       /\ IsDict(config["schedule"])
       /\ Get(config["schedule"], "start_date", NoneV).type = "datetime"
       /\ Get(config["schedule"], "end_date", NoneV).type = "datetime"
       /\ Has(config["schedule"], "schedule_interval")
  /\ Has(config, "tasks") =>
       \A i \in 1..Len(config["tasks"]) :
         LET d == config["tasks"][i][2]
         IN /\ (IsQueryTask(d) /\ Has(d, "query")) => d["query"].has_sql
            /\ Has(d, "type") => hashable(d["type"])
            /\ Has(d, "up_stream") => d["up_stream"].type \in {"list", "str"}

NothingReturned == Last.text = "" /\ emitted = [insts |-> <<>>, deps |-> <<>>]

\* C3: whenever one of the required keys (schedule, email, tasks, a task's
\* type) is absent and nothing else is wrong with the configuration, py fails
\* with a key-not-found error and returns no text.  The code violates it: an
\* absent schedule is read with dag_spec.get('schedule'), which substitutes
\* None, and None.get raises an attribute error.
C3_AsStated ==
  (Parsed /\ MissingKey(given) /\ OtherwiseWellFormed(given)) =>
    (Last.status = "KeyError" /\ NothingReturned)

\* py was read on a configuration without schedule, with email and typed
\* tasks, and failed with an attribute error.
C3_Witness ==
  /\ Parsed
  /\ Last.status = "AttributeError"
  /\ ~Has(given, "schedule") /\ Has(given, "email") /\ Has(given, "tasks")
  /\ given["tasks"] # <<>>
  /\ \A i \in 1..Len(given["tasks"]) : Has(given["tasks"][i][2], "type")

\* C4: in a returned program, the statement of a query-type task that did not
\* set use_legacy_sql carries use_legacy_sql=False; one that set it carries
\* the given value, once; the statement of any other task carries a
\* use_legacy_sql argument only if the task set one.
C4_LegacySqlDefault ==
  Succeeded =>
    \A j \in 1..Len(emitted.insts) :
      LET inst == emitted.insts[j]
          d == Lookup(given["tasks"], inst.task_id)
          args == ArgsNamed(inst, "use_legacy_sql")
      IN IF Has(d, "use_legacy_sql")
         THEN /\ Cardinality(args) = 1
              /\ \A k \in args :
                   /\ inst.params[k].value = d["use_legacy_sql"]
                   /\ inst.params[k].text \in
                        {Unquoted("use_legacy_sql", d["use_legacy_sql"].str),
                         Quoted("use_legacy_sql", d["use_legacy_sql"].str)}
         ELSE IF IsQueryTask(d)
         THEN /\ Cardinality(args) = 1
              /\ \A k \in args : inst.params[k].text = ", use_legacy_sql=False"
         ELSE args = {}

\* A program was returned for a query-type task that did not set use_legacy_sql.
C4_Witness ==
  /\ Succeeded
  /\ given = spec_str.yaml
  /\ \E i \in 1..Len(given["tasks"]) :
       /\ IsQueryTask(given["tasks"][i][2])
       /\ ~Has(given["tasks"][i][2], "use_legacy_sql")

\* C5: in a returned program, the query parameter of a query-type task is
\* emitted under the name bql with the value of its .sql attribute, and no
\* argument of that statement is named query; every other parameter, and every
\* parameter of another task, keeps its name and value.
C5_QueryBecomesBql ==
  Succeeded =>
    \A j \in 1..Len(emitted.insts) :
      LET inst == emitted.insts[j]
          d == Lookup(dag_spec["tasks"], inst.task_id)
      IN /\ IsQueryTask(d) => ArgsNamed(inst, "query") = {}
         /\ (IsQueryTask(d) /\ Has(d, "query")) => Cardinality(ArgsNamed(inst, "bql")) = 1
         /\ \A k \in 1..Len(inst.params) :
              LET p == inst.params[k]
              IN IF IsQueryTask(d) /\ p.param_name = "query"
                 THEN /\ p.name = "bql"
                      /\ p.value.str = d["query"].sql
                      /\ p.text = Quoted("bql", d["query"].sql)
                 ELSE /\ p.name = p.param_name
                      /\ p.value = d[p.param_name]
                      /\ p.text \in {Unquoted(p.param_name, d[p.param_name].str),
                                     Quoted(p.param_name, d[p.param_name].str)}

\* A program was returned for a query-type task with a query and another parameter.
C5_Witness ==
  /\ Succeeded
  /\ \E i \in 1..Len(given["tasks"]) :
       /\ IsQueryTask(given["tasks"][i][2])
       /\ Has(given["tasks"][i][2], "query")
       /\ Has(given["tasks"][i][2], "priority")

\* C6: in a returned program, an argument is emitted without quotes if and
\* only if the parameter value is an int, a bool, a float or None, and between
\* single quotes otherwise (a string, an object whose .sql is substituted);
\* the injected use_legacy_sql=False is unquoted.
C6_QuotingByType ==
  Succeeded =>
    \A j \in 1..Len(emitted.insts) :
      LET inst == emitted.insts[j]
          d == Lookup(dag_spec["tasks"], inst.task_id)
      IN \A k \in 1..Len(inst.params) :
           LET p == inst.params[k]
           IN IF d[p.param_name].type \in {"int", "bool", "float", "NoneType"}
              THEN p.text = Unquoted(p.name, p.value.str)
              ELSE p.text = Quoted(p.name, p.value.str)

\* A program was returned for a query-type task whose query is an object with
\* .sql, with a float parameter and the injected default.
C6_Witness ==
  /\ Succeeded
  /\ given = spec_str.yaml
  /\ \E i \in 1..Len(given["tasks"]) :
       LET d == given["tasks"][i][2]
       IN /\ IsQueryTask(d)
          /\ Has(d, "query") /\ d["query"].type = "Query"
          /\ Has(d, "priority") /\ d["priority"].type = "float"
          /\ ~Has(d, "use_legacy_sql")

\* C7: every read of py on the same pipeline returns the same value, also
\* when the configuration it works on is one an earlier read already injected
\* the defaults into.
C7_RepeatedCallsAgree ==
  \A i, j \in 1..Len(returned) : returned[i] = returned[j]

\* py was read twice with a program returned, the second time on a
\* configuration the first read had added a default to.
C7_Witness ==
  /\ Len(returned) = MaxCalls
  /\ Succeeded
  /\ given # spec_str.yaml

\* C8: when the spec text is None or empty, every read of py returns None,
\* parse_config is never invoked and no statement is emitted, for every name
\* and env.
C8_EmptySpecReturnsNone ==
  (spec_str.type = "NoneType" \/ spec_str.empty) =>
    /\ parses = 0
    /\ given = EmptyDict /\ dag_spec = EmptyDict
    /\ emitted = [insts |-> <<>>, deps |-> <<>>]
    /\ \A i \in 1..Len(returned) : returned[i] = [status |-> "None", text |-> ""]

\* py was read on an empty spec text, with a non-empty env.
C8_Witness ==
  /\ Called
  /\ spec_str = EmptyStr
  /\ env # EmptyDict

\* The task-parameter mapping `after` is `before`, or `before` with
\* use_legacy_sql = False added where `before` is a query-type task without it.
OnlyDefaultAdded(before, after) ==
  \/ after = before
  \/ /\ IsQueryTask(before)
     /\ ~Has(before, "use_legacy_sql")
     /\ after = Put(before, "use_legacy_sql", FalseV)

\* C9: a read of py changes nothing of the pipeline or of the parsed
\* configuration but this: it may add use_legacy_sql = False to the parameter
\* mapping of a query-type task that lacks the key.  Keys, their order and
\* values, the mappings of other tasks, schedule, email and env stay as given.
C9_OnlyDefaultInjectionMutates ==
  [][ /\ spec_str' = spec_str /\ name' = name /\ env' = env
      /\ parses' # parses =>
           /\ DOMAIN dag_spec' = DOMAIN given'
           /\ \A k \in DOMAIN given' \ {"tasks"} : dag_spec'[k] = given'[k]
           /\ Has(given', "tasks") =>
                /\ Len(dag_spec'["tasks"]) = Len(given'["tasks"])
                /\ \A i \in 1..Len(given'["tasks"]) :
                     /\ dag_spec'["tasks"][i][1] = given'["tasks"][i][1]
                     /\ OnlyDefaultAdded(given'["tasks"][i][2], dag_spec'["tasks"][i][2])
    ]_vars

\* A read of py added the default to one task and left a task of another
\* operator class as it was.
C9_Witness ==
  /\ Parsed
  /\ Has(given, "tasks")
  /\ \E i, k \in 1..Len(given["tasks"]) :
       /\ dag_spec["tasks"][i][2] # given["tasks"][i][2]
       /\ ~IsQueryTask(given["tasks"][k][2])
       /\ Has(given["tasks"][k][2], "type")

\* C10: every instantiation statement of a returned program reads
\* <id> = <class>(task_id='<id>_id', <arguments>, dag=dag), with exactly one
\* argument per key of the task-parameter mapping (defaults included) other
\* than type and up_stream, in lexicographic order of the key (query is placed
\* as query, not as bql).
C10_ArgumentOrder ==
  Succeeded =>
    \A j \in 1..Len(emitted.insts) :
      LET inst == emitted.insts[j]
          d == Lookup(dag_spec["tasks"], inst.task_id)
      IN /\ inst.text = inst.task_id \o " = " \o inst.classname \o "(task_id='"
                          \o inst.task_id \o "_id'" \o Join(Texts(inst.params))
                          \o ", dag=dag)\n"
         /\ {inst.params[k].param_name : k \in 1..Len(inst.params)}
              = DOMAIN d \ {"type", "up_stream"}
         /\ \A k \in 1..(Len(inst.params) - 1) :
              StrLess(inst.params[k].param_name, inst.params[k + 1].param_name)
         /\ \A k \in 1..Len(inst.params) :
              inst.params[k].name \in
                {inst.params[k].param_name} \cup
                  (IF inst.params[k].param_name = "query" THEN {"bql"} ELSE {})

\* A program was returned for a query-type task with up_stream, priority and
\* query, whose default was injected: the arguments are priority, bql,
\* use_legacy_sql.
C10_Witness ==
  /\ Succeeded
  /\ \E j \in 1..Len(emitted.insts) :
       /\ Len(emitted.insts[j].params) = 3
       /\ emitted.insts[j].params[1].name = "priority"
       /\ emitted.insts[j].params[2].name = "bql"
       /\ emitted.insts[j].params[3].name = "use_legacy_sql"
       /\ Has(Lookup(given["tasks"], emitted.insts[j].task_id), "up_stream")

====
